---- MODULE Spec2Model ----
(***************************************************************************)
(* Trend confirmation and level engine of src/main.py.                     *)
(*                                                                         *)
(* Prices are integers.  The exponentially weighted means of add_indicators*)
(* are kept in fixed point (units of 1/Q of a price unit, rounded down at  *)
(* every step), price levels of calc_levels in hundredths of a price unit. *)
(* Indices are the 0-based indices of the source; At(df, i) reads row i.   *)
(* Columns that no decision reads (ts, open, volume, vol_sma20, v_ratio)   *)
(* are left out of the rows, and so are the SUMMARY mode of main and the   *)
(* wording of the messages.                                                *)
(*                                                                         *)
(* Spec is one TREND run of main over TRADE_SYMBOLS; SeriesSpec is a row   *)
(* of TREND runs on one instrument whose 4H series grows by a candle       *)
(* between runs.                                                           *)
(***************************************************************************)
EXTENDS Integers, Sequences, FiniteSets, TLC

\* ------------------------------------------------------------------ constants
MAJORS == <<"BTC-USDT", "ETH-USDT">>

\* the scan list of line 11, cut after its first altcoin
TRADE_SYMBOLS == <<"BTC-USDT", "ETH-USDT", "BNB-USDT">>

SeqRange(s) == {s[i] : i \in 1..Len(s)}

ALTCOINS == SelectSeq(TRADE_SYMBOLS, LAMBDA s : s \notin SeqRange(MAJORS))

\* fixed-point resolution of the moving averages
Q == 1000

MinRaw == 5
MinRows == 60
Limit4H == 220
Limit1D == 160
Look == 2
SpanFast == 14
SpanSlow == 28
SpanMacdFast == 12
SpanMacdSlow == 26
SpanSignal == 9
FlowThreshold == 80000
VoteThreshold == 3
NoneIdx == -1

None == "None"
NoData == <<>>

\* ------------------------------------------------------------------ helpers
At(df, i) == df[i + 1]

\* a sequence given by a function on 1..n, as a tuple
AsSeq(f, n) == SubSeq(f, 1, n)

Only(S) == CHOOSE x \in S : TRUE

Reverse(s) == Only({AsSeq([i \in 1..Len(t) |-> t[Len(t) + 1 - i]], Len(t)) : t \in {s}})

Take(s, k) == SubSeq(s, 1, IF Len(s) < k THEN Len(s) ELSE k)

Abs(x) == IF x < 0 THEN 0 - x ELSE x

RECURSIVE MaxOf(_)
MaxOf(S) == LET x == CHOOSE y \in S : TRUE
            IN IF S = {x} THEN x
               ELSE LET m == MaxOf(S \ {x}) IN IF x > m THEN x ELSE m

RECURSIVE MinOf(_)
MinOf(S) == LET x == CHOOSE y \in S : TRUE
            IN IF S = {x} THEN x
               ELSE LET m == MinOf(S \ {x}) IN IF x < m THEN x ELSE m

\* ------------------------------------------------------------------ get_candles
\* lines 90-103: the records that parse, as rows
parse_rows(raw) ==
    Only({AsSeq([i \in 1..Len(ok) |->
                   [high |-> ok[i].high, low |-> ok[i].low, close |-> ok[i].close]], Len(ok)) :
            ok \in {SelectSeq(raw, LAMBDA r : r.ok)}})

\* raw is the exchange's answer, newest record first; a record with ok = FALSE
\* is one whose fields do not parse.
get_candles(raw) ==
    IF Len(raw) = 0 \/ Len(raw) < MinRaw THEN NoData
    ELSE LET rows == parse_rows(Reverse(raw))
         IN IF Len(rows) < MinRows THEN NoData ELSE rows

\* ------------------------------------------------------------------ add_indicators
\* one step of ewm(span, adjust=False).mean(): y = (1-a)*y + a*x, a = 2/(span+1)
ewm(prev, x, span) == ((span - 1) * prev + 2 * x) \div (span + 1)

\* the row of candle c that follows the row p; ema12 and ema26 are the two
\* means behind macd.  The first row is seeded with its own close.
indicator_row(c, p) ==
    LET x == c.close * Q
        e12 == ewm(p.ema12, x, SpanMacdFast)
        e26 == ewm(p.ema26, x, SpanMacdSlow)
    IN [high |-> c.high, low |-> c.low, close |-> c.close,
        ema_fast |-> ewm(p.ema_fast, x, SpanFast),
        ema_slow |-> ewm(p.ema_slow, x, SpanSlow),
        ema12 |-> e12, ema26 |-> e26,
        macd |-> e12 - e26,
        macd_signal |-> ewm(p.macd_signal, e12 - e26, SpanSignal)]

first_row(c) ==
    [high |-> c.high, low |-> c.low, close |-> c.close,
     ema_fast |-> c.close * Q, ema_slow |-> c.close * Q,
     ema12 |-> c.close * Q, ema26 |-> c.close * Q,
     macd |-> 0, macd_signal |-> 0]

RECURSIVE indicators_from(_, _)
indicators_from(df, acc) ==
    IF Len(acc) = Len(df) THEN acc
    ELSE indicators_from(df, Append(acc, indicator_row(df[Len(acc) + 1], acc[Len(acc)])))

add_indicators(df) == IF df = <<>> THEN <<>> ELSE indicators_from(df, <<first_row(df[1])>>)

\* ------------------------------------------------------------------ detect_swings
is_swing_high(df, i, look) ==
    /\ i >= look /\ i < Len(df) - look
    /\ \A k \in 1..look : At(df, i).high > At(df, i - k).high
    /\ \A k \in 1..look : At(df, i).high > At(df, i + k).high

is_swing_low(df, i, look) ==
    /\ i >= look /\ i < Len(df) - look
    /\ \A k \in 1..look : At(df, i).low < At(df, i - k).low
    /\ \A k \in 1..look : At(df, i).low < At(df, i + k).low

swing_row(df, i, look) ==
    LET r == At(df, i)
    IN [high |-> r.high, low |-> r.low, close |-> r.close,
        ema_fast |-> r.ema_fast, ema_slow |-> r.ema_slow,
        macd |-> r.macd, macd_signal |-> r.macd_signal,
        swing_high |-> is_swing_high(df, i, look),
        swing_low |-> is_swing_low(df, i, look)]

detect_swings(df, look) ==
    Only({AsSeq([j \in 1..Len(d) |-> swing_row(d, j - 1, look)], Len(d)) : d \in {df}})

\* ------------------------------------------------------------------ get_structure
\* the greatest member of a set of indices, or NoneIdx
LastOf(S) == IF S = {} THEN NoneIdx ELSE MaxOf(S)

get_structure(df, idx) ==
    LET highs == {i \in 0..idx : At(df, i).swing_high}
        lows == {i \in 0..idx : At(df, i).swing_low}
        two_hi == Cardinality(highs) >= 2
        two_lo == Cardinality(lows) >= 2
        last_hi == IF two_hi THEN LastOf(highs) ELSE NoneIdx
        prev_hi == IF two_hi THEN LastOf(highs \ {last_hi}) ELSE NoneIdx
        last_lo == IF two_lo THEN LastOf(lows) ELSE NoneIdx
        prev_lo == IF two_lo THEN LastOf(lows \ {last_lo}) ELSE NoneIdx
        ht == IF ~two_hi THEN None
              ELSE IF At(df, last_hi).high > At(df, prev_hi).high THEN "HH" ELSE "LH"
        lt == IF ~two_lo THEN None
              ELSE IF At(df, last_lo).low > At(df, prev_lo).low THEN "HL" ELSE "LL"
        dir1 == IF ht = "HH" \/ lt = "HL" THEN "UP" ELSE "NEUTRAL"
        struct_dir == IF ht = "LH" \/ lt = "LL" THEN "DOWN" ELSE dir1
    IN [dir |-> struct_dir, high |-> ht, low |-> lt, hi_idx |-> last_hi, lo_idx |-> last_lo]

\* ------------------------------------------------------------------ trend_decision
ema_dir(df, idx) == IF At(df, idx).ema_fast > At(df, idx).ema_slow THEN "UP" ELSE "DOWN"

macd_dir(df, idx) == IF At(df, idx).macd > At(df, idx).macd_signal THEN "UP" ELSE "DOWN"

\* a faulty variant: structure and EMA alone confirm, no third vote asked
trend_decision_two_votes(df, idx, whale_dir) ==
    LET st == get_structure(df, idx)
        e == ema_dir(df, idx)
    IN [raw |-> e,
        confirmed |-> IF st.dir # "NEUTRAL" /\ st.dir = e THEN st.dir ELSE None,
        structure |-> st]

trend_decision(df, idx, whale_dir) ==
    LET st == get_structure(df, idx)
        struct_dir == st.dir
        e == ema_dir(df, idx)
        m == macd_dir(df, idx)
        match == 2 + (IF m = struct_dir THEN 1 ELSE 0)
                   + (IF whale_dir = struct_dir THEN 1 ELSE 0)
        confirmed == IF struct_dir # "NEUTRAL" /\ struct_dir = e /\ match >= VoteThreshold
                     THEN struct_dir ELSE None
    IN [raw |-> e, confirmed |-> confirmed, structure |-> st]

\* ------------------------------------------------------------------ get_trade_flow
RECURSIVE SumUsd(_, _)
SumUsd(data, buy) ==
    IF data = <<>> THEN 0
    ELSE (IF Head(data).ok /\ ((Head(data).side = "buy") = buy)
          THEN Head(data).px * Head(data).sz ELSE 0) + SumUsd(Tail(data), buy)

\* the first trade of the greatest notional value: [size, side]
RECURSIVE MaxTrade(_, _)
MaxTrade(data, acc) ==
    IF data = <<>> THEN acc
    ELSE LET t == Head(data)
         IN MaxTrade(Tail(data),
               IF t.ok /\ t.px * t.sz > acc.size
               THEN [size |-> t.px * t.sz, side |-> t.side] ELSE acc)

get_trade_flow(data) ==
    IF Len(data) = 0 THEN [net |-> 0, cat |-> "-", dir |-> None]
    ELSE LET big == MaxTrade(data, [size |-> 0, side |-> None])
             cat == IF big.size >= 1000000 THEN "XXL"
                    ELSE IF big.size >= 500000 THEN "XL"
                    ELSE IF big.size >= 150000 THEN "L"
                    ELSE IF big.size >= 50000 THEN "M"
                    ELSE "-"
         IN [net |-> SumUsd(data, TRUE) - SumUsd(data, FALSE),
             cat |-> cat,
             dir |-> IF big.side = "buy" THEN "UP"
                     ELSE IF big.side = "sell" THEN "DOWN" ELSE None]

\* ------------------------------------------------------------------ analyze
\* the whale direction handed to trend_decision (lines 294-297)
whale_dir_of(trade) ==
    IF Abs(trade.net) > FlowThreshold /\ trade.dir # None THEN trade.dir ELSE None

\* the 1D trend (lines 305-314)
day_of(df1) ==
    LET s1 == get_structure(df1, Len(df1) - 1)
        ema1 == ema_dir(df1, Len(df1) - 1)
    IN IF s1.dir = "UP" /\ ema1 = "UP" THEN "UP"
       ELSE IF s1.dir = "DOWN" /\ ema1 = "DOWN" THEN "DOWN"
       ELSE "NEUTRAL"

\* swing range (lines 320-324)
swing_range_of(df4, hi_idx, lo_idx) ==
    IF hi_idx # NoneIdx /\ lo_idx # NoneIdx
    THEN Abs(At(df4, hi_idx).high - At(df4, lo_idx).low)
    ELSE LET last20 == {i \in 1..Len(df4) : i > Len(df4) - 20}
         IN MaxOf({df4[i].high : i \in last20}) - MinOf({df4[i].low : i \in last20})

Failed(msg) == [ok |-> FALSE, err |-> msg]

analyze(inst, raw4, raw1, trades) ==
    LET c4 == get_candles(Take(raw4, Limit4H))
        c1 == get_candles(Take(raw1, Limit1D))
    IN IF c4 = NoData THEN Failed("4H veri yok")
       ELSE IF c1 = NoData THEN Failed("1D veri yok")
       ELSE LET df4 == detect_swings(add_indicators(c4), Look)
                df1 == detect_swings(add_indicators(c1), Look)
                trade == get_trade_flow(trades)
                whale_dir == whale_dir_of(trade)
                i4 == Len(df4) - 1
                p4 == Len(df4) - 2
                now == trend_decision(df4, i4, whale_dir)
                prev == trend_decision(df4, p4, None)
            IN [ok |-> TRUE, inst |-> inst, df4 |-> df4, day |-> day_of(df1),
                now |-> now, prev |-> prev,
                close |-> At(df4, i4).close,
                swing |-> swing_range_of(df4, now.structure.hi_idx, now.structure.lo_idx),
                hi |-> now.structure.hi_idx, lo |-> now.structure.lo_idx,
                net |-> trade.net, whale_cat |-> trade.cat, whale_dir |-> whale_dir,
                high_type |-> now.structure.high, low_type |-> now.structure.low,
                ema_fast |-> At(df4, i4).ema_fast, ema_slow |-> At(df4, i4).ema_slow]

\* ------------------------------------------------------------------ calc_levels
\* levels in hundredths of a price unit
calc_levels(d, direction) ==
    IF direction = "UP"
    THEN [sl |-> IF d.lo # NoneIdx THEN 100 * At(d.df4, d.lo).low ELSE 97 * d.close,
          tp1 |-> 100 * d.close + 50 * d.swing,
          tp2 |-> 100 * d.close + 100 * d.swing,
          tp3 |-> 100 * d.close + 150 * d.swing]
    ELSE [sl |-> IF d.hi # NoneIdx THEN 100 * At(d.df4, d.hi).high ELSE 103 * d.close,
          tp1 |-> 100 * d.close - 50 * d.swing,
          tp2 |-> 100 * d.close - 100 * d.swing,
          tp3 |-> 100 * d.close - 150 * d.swing]

\* ------------------------------------------------------------------ is_reentry_signal
\* a faulty variant: both earlier bars must have touched the fast average
is_reentry_signal_both(d) ==
    LET df == d.df4
        n == Len(df)
        conf == d.now.confirmed
        r2 == At(df, n - 3)
        r1 == At(df, n - 2)
        r0 == At(df, n - 1)
    IN IF conf = "UP"
       THEN r2.close * Q <= r2.ema_fast /\ r1.close * Q <= r1.ema_fast
            /\ r0.close * Q > r0.ema_fast
       ELSE IF conf = "DOWN"
       THEN r2.close * Q >= r2.ema_fast /\ r1.close * Q >= r1.ema_fast
            /\ r0.close * Q < r0.ema_fast
       ELSE FALSE

is_reentry_signal(d) ==
    LET df == d.df4
        n == Len(df)
        conf == d.now.confirmed
        c2 == At(df, n - 3).close * Q
        c1 == At(df, n - 2).close * Q
        c0 == At(df, n - 1).close * Q
        e2 == At(df, n - 3).ema_fast
        e1 == At(df, n - 2).ema_fast
        e0 == At(df, n - 1).ema_fast
    IN IF conf = None THEN FALSE
       ELSE IF conf = "UP" THEN (c2 <= e2 \/ c1 <= e1) /\ c0 > e0
       ELSE IF conf = "DOWN" THEN (c2 >= e2 \/ c1 >= e1) /\ c0 < e0
       ELSE FALSE

\* ------------------------------------------------------------------ build_signal_block
strength(now, day) ==
    IF day = "NEUTRAL" THEN "Notr Sinyal"
    ELSE IF now = day THEN "Guclu Sinyal" ELSE "Zayif Sinyal (Karsi Trend)"

side_text(d) == IF d = "UP" THEN "LONG" ELSE "SHORT"

build_signal_block(d, tag) ==
    LET now == d.now.confirmed
    IN [inst |-> d.inst, tag |-> tag, dir |-> now, side |-> side_text(now),
        strength |-> strength(now, d.day), day |-> d.day, close |-> d.close,
        levels |-> calc_levels(d, now)]

\* ------------------------------------------------------------------ main
\* lines 504-510: BTC or ETH confirmed DOWN closes the altcoin longs
regime_gate(A) ==
    \E m \in SeqRange(MAJORS) : m \in DOMAIN A /\ A[m].now.confirmed = "DOWN"

\* a faulty variant: the gate closes the altcoins in both directions
alt_long_blocked_any(s, now, block_alt_long) ==
    s \in SeqRange(ALTCOINS) /\ block_alt_long

\* line 524 / line 547
alt_long_blocked(s, now, block_alt_long) ==
    s \in SeqRange(ALTCOINS) /\ block_alt_long /\ now = "UP"

\* a faulty variant: every confirmed direction is reported, fresh or held
RECURSIVE trend_blocks_broadcast(_, _, _)
trend_blocks_broadcast(A, syms, block_alt_long) ==
    IF syms = <<>> THEN <<>>
    ELSE LET s == Head(syms)
             rest == trend_blocks_broadcast(A, Tail(syms), block_alt_long)
         IN IF s \notin DOMAIN A THEN rest
            ELSE IF A[s].now.confirmed = None THEN rest
            ELSE IF alt_long_blocked(s, A[s].now.confirmed, block_alt_long) THEN rest
            ELSE <<build_signal_block(A[s], "TREND")>> \o rest

\* lines 516-529: the blocks of the trend-change message, in the order of A
RECURSIVE trend_blocks(_, _, _)
trend_blocks(A, syms, block_alt_long) ==
    IF syms = <<>> THEN <<>>
    ELSE LET s == Head(syms)
             rest == trend_blocks(A, Tail(syms), block_alt_long)
         IN IF s \notin DOMAIN A THEN rest
            ELSE IF A[s].now.confirmed = None THEN rest
            ELSE IF alt_long_blocked(s, A[s].now.confirmed, block_alt_long) THEN rest
            ELSE IF A[s].prev.confirmed = None \/ A[s].prev.confirmed # A[s].now.confirmed
                 THEN <<build_signal_block(A[s], "TREND")>> \o rest
                 ELSE rest

\* lines 540-551: the blocks of the re-entry message, in the order of A
RECURSIVE reentry_blocks(_, _, _)
reentry_blocks(A, syms, block_alt_long) ==
    IF syms = <<>> THEN <<>>
    ELSE LET s == Head(syms)
             rest == reentry_blocks(A, Tail(syms), block_alt_long)
         IN IF s \notin DOMAIN A THEN rest
            ELSE IF A[s].now.confirmed = None THEN rest
            ELSE IF alt_long_blocked(s, A[s].now.confirmed, block_alt_long) THEN rest
            ELSE IF is_reentry_signal(A[s])
                 THEN <<build_signal_block(A[s], "RE-ENTRY")>> \o rest
                 ELSE rest

\* the text handed to send_telegram: its title, the regime line, the blocks
message(kind, block_alt_long, blocks) ==
    [kind |-> kind, regime_line |-> block_alt_long, blocks |-> blocks]

\* ------------------------------------------------------------------ the market
\* A candle series of the exchange, oldest first: MinRows candles of a zigzag
\* trend (rising when up, falling otherwise), to which later bars are appended.
ZigZag == <<4, 4, -2, -2, 1>>

Bar(c) == [ok |-> TRUE, high |-> c + 1, low |-> c - 1, close |-> c]

RECURSIVE ZigZagFrom(_, _)
ZigZagFrom(up, acc) ==
    IF Len(acc) = MinRows THEN acc
    ELSE LET d == ZigZag[((Len(acc) - 1) % Len(ZigZag)) + 1]
         IN ZigZagFrom(up, Append(acc, Bar(acc[Len(acc)].close + (IF up THEN d ELSE 0 - d))))

BaseSeries(up) == ZigZagFrom(up, <<Bar(IF up THEN 100 ELSE 200)>>)

\* the close-to-close moves a new bar can make
Moves == {4, -4, 30, -30}

NextBar(series, move) == Bar(series[Len(series)].close + move)

RECURSIVE Grown(_, _)
Grown(series, moves) ==
    IF moves = <<>> THEN series
    ELSE Grown(Append(series, NextBar(series, Head(moves))), Tail(moves))

\* a record of the exchange's answer whose fields do not parse
Malformed == [ok |-> FALSE, high |-> 0, low |-> 0, close |-> 0]

\* one large buy, one large sell, or no trade at all
Tapes == { <<>>,
           << [ok |-> TRUE, px |-> 100, sz |-> 2000, side |-> "buy"] >>,
           << [ok |-> TRUE, px |-> 100, sz |-> 2000, side |-> "sell"] >> }

\* bars appended to a series before the model stops growing it
MaxBars == 3

\* ---- what the exchange may answer to one symbol in a run of main ----
\* c4, c1: the 4H and 1D candles, newest first; tr: the trades.
Sell == << [ok |-> TRUE, px |-> 100, sz |-> 2000, side |-> "sell"] >>

Buy == << [ok |-> TRUE, px |-> 100, sz |-> 2000, side |-> "buy"] >>

Daily == Reverse(BaseSeries(TRUE))

\* a 4H answer that two unparseable records leave at MinRows - 1 rows
Short4H ==
    <<Malformed>> \o Reverse(Grown(SubSeq(BaseSeries(TRUE), 1, MinRows - 2), <<4>>))
       \o <<Malformed>>

Answers ==
    { [c4 |-> Reverse(BaseSeries(TRUE)), c1 |-> Daily, tr |-> <<>>],
       [c4 |-> Reverse(BaseSeries(TRUE)), c1 |-> Daily, tr |-> Buy],
       [c4 |-> Reverse(Grown(BaseSeries(TRUE), <<4>>)), c1 |-> Daily, tr |-> <<>>],
       [c4 |-> Reverse(Grown(BaseSeries(TRUE), <<30, -30, 4>>)), c1 |-> Daily, tr |-> <<>>],
       [c4 |-> Reverse(BaseSeries(FALSE)), c1 |-> Daily, tr |-> Sell],
       [c4 |-> Reverse(Grown(BaseSeries(FALSE), <<-4>>)), c1 |-> Daily, tr |-> <<>>],
       [c4 |-> Reverse(Grown(BaseSeries(FALSE), <<-30, 30, -4>>)), c1 |-> Daily, tr |-> <<>>],
       [c4 |-> Short4H, c1 |-> Daily, tr |-> <<>>],
       [c4 |-> Reverse(BaseSeries(TRUE)), c1 |-> Reverse(SubSeq(BaseSeries(TRUE), 1, 30)),
        tr |-> <<>>],
       [c4 |-> Reverse(BaseSeries(TRUE)), c1 |-> Reverse(SubSeq(BaseSeries(TRUE), 1, 29)),
        tr |-> <<>>] }

Put(A, s, d) == [t \in DOMAIN A \cup {s} |-> IF t = s THEN d ELSE A[t]]

\* ---- one instrument followed over successive runs ----
Instrument == "BTC-USDT"

Single(d) == IF d.ok THEN Put(<<>>, d.inst, d) ELSE <<>>

\* lines 500-561 as one step: the messages a TREND run sends for analyses A
main_sends(A) ==
    IF DOMAIN A = {} THEN <<>>
    ELSE LET b == regime_gate(A)
             tb == trend_blocks(A, TRADE_SYMBOLS, b)
             rb == reentry_blocks(A, TRADE_SYMBOLS, b)
         IN IF tb # <<>> THEN <<message("TREND", b, tb)>>
            ELSE IF rb # <<>> THEN <<message("RE-ENTRY", b, rb)>>
            ELSE <<>>

NoFetch == [inst |-> None, ok |-> FALSE, rows4 |-> 0, rows1 |-> 0]

VARIABLES
    pc,              \* where main is: "analyze", "trend", "reentry", "done"
    k,               \* the symbol of TRADE_SYMBOLS the loop of line 494 is at
    A,               \* the analyses of this run
    fetched,         \* the symbol analysed last and the rows its answers held
    block_alt_long,
    changed_any,
    blocks,
    re_blocks,
    sent,            \* the messages handed to send_telegram
    feed,            \* one instrument's 4H series at the exchange, oldest first
    cur,             \* its analysis in the latest run
    last,            \* its analysis in the run before
    alert            \* the blocks the latest run sent for it

mainvars == <<pc, k, A, fetched, block_alt_long, changed_any, blocks, re_blocks, sent>>

seriesvars == <<feed, cur, last, alert>>

vars == <<mainvars, seriesvars>>

NoRun == Failed("none")

\* ---------------------------------------------------------------- one TREND run
MainInit ==
    /\ pc = "analyze" /\ k = 1 /\ A = <<>> /\ fetched = NoFetch
    /\ block_alt_long = FALSE /\ changed_any = FALSE
    /\ blocks = <<>> /\ re_blocks = <<>> /\ sent = <<>>

Init == MainInit /\ feed = <<>> /\ cur = NoRun /\ last = NoRun /\ alert = <<>>

\* lines 494-498: one turn of the loop; an analysis that raises is skipped
Analyze ==
    /\ pc = "analyze" /\ k <= Len(TRADE_SYMBOLS)
    /\ \E a \in Answers, s \in {TRADE_SYMBOLS[k]} :
          \E d \in {analyze(s, a.c4, a.c1, a.tr)} :
             /\ A' = IF d.ok THEN Put(A, s, d) ELSE A
             /\ fetched' = [inst |-> s, ok |-> d.ok,
                            rows4 |-> Len(parse_rows(a.c4)),
                            rows1 |-> Len(parse_rows(a.c1))]
    /\ k' = k + 1
    /\ UNCHANGED <<pc, block_alt_long, changed_any, blocks, re_blocks, sent, seriesvars>>

\* lines 500-502
NoAnalysis ==
    /\ pc = "analyze" /\ k > Len(TRADE_SYMBOLS) /\ DOMAIN A = {}
    /\ pc' = "done" /\ fetched' = NoFetch
    /\ UNCHANGED <<k, A, block_alt_long, changed_any, blocks, re_blocks, sent, seriesvars>>

\* lines 504-510
RegimeGate ==
    /\ pc = "analyze" /\ k > Len(TRADE_SYMBOLS) /\ DOMAIN A # {}
    /\ block_alt_long' = regime_gate(A)
    /\ pc' = "trend" /\ fetched' = NoFetch
    /\ UNCHANGED <<k, A, changed_any, blocks, re_blocks, sent, seriesvars>>

\* a faulty variant: the run goes on to the re-entry scan after sending
TrendScan_fallthrough ==
    /\ pc = "trend"
    /\ LET bs == trend_blocks(A, TRADE_SYMBOLS, block_alt_long)
       IN /\ blocks' = bs
          /\ changed_any' = (bs # <<>>)
          /\ sent' = IF bs # <<>> THEN Append(sent, message("TREND", block_alt_long, bs))
                     ELSE sent
    /\ pc' = "reentry"
    /\ UNCHANGED <<k, A, fetched, block_alt_long, re_blocks, seriesvars>>

\* lines 512-537
TrendScan ==
    /\ pc = "trend"
    /\ LET bs == trend_blocks(A, TRADE_SYMBOLS, block_alt_long)
       IN /\ blocks' = bs
          /\ changed_any' = (bs # <<>>)
          /\ \/ /\ bs # <<>>
                /\ sent' = Append(sent, message("TREND", block_alt_long, bs))
                /\ pc' = "done"
             \/ /\ bs = <<>>
                /\ sent' = sent
                /\ pc' = "reentry"
    /\ UNCHANGED <<k, A, fetched, block_alt_long, re_blocks, seriesvars>>

\* lines 539-561
ReentryScan ==
    /\ pc = "reentry"
    /\ LET bs == reentry_blocks(A, TRADE_SYMBOLS, block_alt_long)
       IN /\ re_blocks' = bs
          /\ \/ /\ bs # <<>>
                /\ sent' = Append(sent, message("RE-ENTRY", block_alt_long, bs))
             \/ /\ bs = <<>>
                /\ sent' = sent
    /\ pc' = "done"
    /\ UNCHANGED <<k, A, fetched, block_alt_long, changed_any, blocks, seriesvars>>

Next == Analyze \/ NoAnalysis \/ RegimeGate \/ TrendScan \/ ReentryScan

Spec == Init /\ [][Next]_vars

\* ------------------------------------------------- successive runs, one instrument
\* The scheduler starts main once per 4H candle.  feed is the instrument's 4H
\* series at the exchange; every run reads it again from the start, together
\* with the trades of the moment.
SeriesInit ==
    /\ MainInit
    /\ \E up \in BOOLEAN, t \in Tapes :
          \E base \in {BaseSeries(up)}, raw1 \in {Daily} :
             \E d \in {analyze(Instrument, Reverse(base), raw1, t)} :
                /\ feed = base
                /\ cur = d
                /\ alert = main_sends(Single(d))
    /\ last = NoRun

\* the next candle closes move away from the last one; main runs again
Run ==
    /\ Len(feed) < MinRows + MaxBars
    /\ \E m \in Moves, t \in Tapes :
          \E grown \in {Append(feed, NextBar(feed, m))}, raw1 \in {Daily} :
             \E d \in {analyze(Instrument, Reverse(grown), raw1, t)} :
                /\ feed' = grown
                /\ cur' = d
                /\ alert' = main_sends(Single(d))
    /\ last' = cur
    /\ UNCHANGED mainvars

SeriesNext == Run

SeriesSpec == SeriesInit /\ [][SeriesNext]_vars

\* ====================================================================== properties
Directions == {"UP", "DOWN", None}

\* the instruments of the blocks of the messages sent, by tag
Emitted(tag) ==
    UNION {{sent[i].blocks[j].inst : j \in {j \in 1..Len(sent[i].blocks) : sent[i].blocks[j].tag = tag}} :
             i \in 1..Len(sent)}

MajorDown == \E m \in {"BTC-USDT", "ETH-USDT"} : m \in DOMAIN A /\ A[m].now.confirmed = "DOWN"

UpAlt(s) == s \notin {"BTC-USDT", "ETH-USDT"} /\ A[s].now.confirmed = "UP"

Fresh(s) ==
    /\ A[s].now.confirmed # None
    /\ (A[s].prev.confirmed = None \/ A[s].prev.confirmed # A[s].now.confirmed)

\* the rows idx, fast average above the slow one, MACD above its signal
EmaVote(df, idx) == IF At(df, idx).ema_fast > At(df, idx).ema_slow THEN "UP" ELSE "DOWN"

MacdVote(df, idx) == IF At(df, idx).macd > At(df, idx).macd_signal THEN "UP" ELSE "DOWN"

\* the indices C1 is stated at: the first rows and the last two
EarlyRows == 10

C1Indices(n) == 0..(EarlyRows - 1) \cup {n - 2, n - 1}

C1Holds(df, idx, flow) ==
    LET r == trend_decision(df, idx, flow)
        sd == get_structure(df, idx).dir
        raw == EmaVote(df, idx)
        agree == sd # "NEUTRAL" /\ sd = raw /\ (MacdVote(df, idx) = sd \/ flow = sd)
    IN /\ r.confirmed = (IF agree THEN sd ELSE None)
       /\ r.confirmed # "NEUTRAL"
       /\ r.raw = raw
       /\ r.confirmed # None => (sd = r.raw /\ r.raw = r.confirmed)

\* C1: trend_decision confirms the structural direction exactly when it is
\* not NEUTRAL, equals the EMA direction at idx, and the MACD direction or the
\* flow direction equals it too; otherwise it returns null.  The confirmed
\* direction is never NEUTRAL and never contradicts structure or EMA.
C1_TrendDecision ==
    cur.ok =>
        /\ \A idx \in C1Indices(Len(cur.df4)), flow \in Directions :
              C1Holds(cur.df4, idx, flow)
        /\ cur.now = trend_decision(cur.df4, Len(cur.df4) - 1, cur.whale_dir)

\* C1, its case: a direction confirmed by the flow alone, against the MACD;
\* and the same bar unconfirmed without the flow
C1_Witness ==
    /\ last.ok /\ cur.ok /\ cur.now.confirmed = "UP" /\ cur.whale_dir = "UP"
    /\ MacdVote(cur.df4, Len(cur.df4) - 1) = "DOWN"
    /\ trend_decision(cur.df4, Len(cur.df4) - 1, None).confirmed = None

\* C2: in a TREND run, an analysed instrument the regime gate does not
\* suppress gets a trend-change block if and only if its confirmed direction
\* at the latest index is non-null and the one at the index before is null or
\* differs from it.
C2_TrendChangeRule ==
    (pc \in {"reentry", "done"} /\ DOMAIN A # {}) =>
        \A s \in DOMAIN A :
            ~(MajorDown /\ UpAlt(s)) => ((s \in Emitted("TREND")) <=> Fresh(s))

\* C2, its case: one instrument null then UP is reported, another one UP then
\* UP is not
C2_Witness ==
    /\ pc = "done"
    /\ \E s, t \in DOMAIN A :
          /\ A[s].prev.confirmed = None /\ A[s].now.confirmed = "UP"
          /\ s \in Emitted("TREND")
          /\ A[t].prev.confirmed = "UP" /\ A[t].now.confirmed = "UP"
          /\ t \notin Emitted("TREND")

\* C3: when BTC-USDT or ETH-USDT is confirmed DOWN no alert of either type
\* with direction UP is emitted for another instrument; the gate removes no
\* DOWN alert of another instrument, no alert of BTC-USDT or ETH-USDT, and
\* nothing at all when neither of them is confirmed DOWN.
C3_RegimeGate ==
    (pc = "done" /\ DOMAIN A # {}) =>
        \A s \in DOMAIN A :
            IF MajorDown /\ UpAlt(s)
            THEN s \notin Emitted("TREND") \cup Emitted("RE-ENTRY")
            ELSE /\ (s \in Emitted("TREND")) <=> Fresh(s)
                 /\ Emitted("TREND") = {} =>
                      ((s \in Emitted("RE-ENTRY")) <=>
                          (A[s].now.confirmed # None /\ is_reentry_signal(A[s])))

\* C3, its case: under a DOWN major the fresh UP of an altcoin is withheld and
\* a fresh DOWN of a major is reported
C3_Witness ==
    /\ pc = "done" /\ MajorDown
    /\ \E s \in DOMAIN A : UpAlt(s) /\ Fresh(s) /\ s \notin Emitted("TREND")
    /\ \E m \in DOMAIN A : A[m].now.confirmed = "DOWN" /\ m \in Emitted("TREND")

\* C6: a TREND run sends at most one message; a re-entry message is sent only
\* when no trend-change block was produced for any instrument, and a run with
\* a trend-change block delivers trend-change blocks only.
C6_OneAlertType ==
    /\ Len(sent) <= 1
    /\ Emitted("TREND") = {} \/ Emitted("RE-ENTRY") = {}
    /\ Emitted("RE-ENTRY") # {} => blocks = <<>>
    /\ (pc = "done" /\ blocks # <<>>) =>
          sent = <<message("TREND", block_alt_long, blocks)>>
    /\ \A i \in 1..Len(sent) : \A j \in 1..Len(sent[i].blocks) :
          sent[i].blocks[j].tag = sent[i].kind

\* C6, its case: a run with a trend change for one instrument and a re-entry
\* detected for another ends with the trend-change message alone
C6_Witness ==
    /\ pc = "done" /\ Emitted("TREND") # {}
    /\ \E s \in DOMAIN A :
          /\ A[s].now.confirmed # None /\ is_reentry_signal(A[s]) /\ ~Fresh(s)
          /\ ~(MajorDown /\ UpAlt(s))

\* close against fast average over the last three bars of d, for direction conf
ReentryRule(df, conf) ==
    LET n == Len(df)
        c(i) == At(df, i).close * Q
        e(i) == At(df, i).ema_fast
    IN IF conf = "UP"
       THEN (c(n - 3) <= e(n - 3) \/ c(n - 2) <= e(n - 2)) /\ c(n - 1) > e(n - 1)
       ELSE IF conf = "DOWN"
       THEN (c(n - 3) >= e(n - 3) \/ c(n - 2) >= e(n - 2)) /\ c(n - 1) < e(n - 1)
       ELSE FALSE

WithConfirmed(d, conf) == [d EXCEPT !.now = [d.now EXCEPT !.confirmed = conf]]

\* C7: is_reentry_signal is false when the confirmed direction is null; for UP
\* it is true exactly when the close was at or below the fast average at n-3
\* or n-2 and is above it at n-1; for DOWN, mirrored.
C7_Reentry ==
    cur.ok =>
        /\ \A conf \in Directions :
              is_reentry_signal(WithConfirmed(cur, conf)) = ReentryRule(cur.df4, conf)
        /\ is_reentry_signal(WithConfirmed(cur, None)) = FALSE

\* C7, its case: confirmed UP, one of the two earlier bars alone at or below
\* the fast average, the latest above it: a re-entry
C7_Witness ==
    /\ cur.ok /\ cur.now.confirmed = "UP" /\ is_reentry_signal(cur)
    /\ LET n == Len(cur.df4)
       IN (At(cur.df4, n - 3).close * Q > At(cur.df4, n - 3).ema_fast)
          \/ (At(cur.df4, n - 2).close * Q > At(cur.df4, n - 2).ema_fast)

\* the enriched series of a candle series, oldest first
Enriched(series) == detect_swings(add_indicators(parse_rows(series)), Look)

\* the series with its last candle replaced by one that closes move away
Replaced(series, move) ==
    Append(SubSeq(series, 1, Len(series) - 1),
           NextBar(SubSeq(series, 1, Len(series) - 1), move))

\* C4: structure causality.  Two series identical at all indices <= idx give
\* the same Structure at idx; in particular for idx = n-2, whatever the
\* candle at n-1 is.
C4_StructureCausality ==
    (cur.ok /\ Len(feed) > MinRows) =>
        \A m \in Moves :
            get_structure(Enriched(Replaced(feed, m)), Len(feed) - 2)
                = get_structure(cur.df4, Len(feed) - 2)

\* C5: the trend-change event is one-shot.  When the run before and this run,
\* one bar later, confirm the same non-null direction for the instrument, this
\* run sends no trend-change block for it, whatever the flow was in either.
C5_OneShot ==
    (last.ok /\ cur.ok /\ last.now.confirmed # None
       /\ last.now.confirmed = cur.now.confirmed) =>
        \A i \in 1..Len(alert) : alert[i].kind # "TREND"

\* C8: for an analysis with a confirmed direction the levels obey the sign
\* convention: UP has the stop below the close and close <= tp1 <= tp2 <= tp3,
\* DOWN has the stop above the close and close >= tp1 >= tp2 >= tp3.
C8_LevelSigns ==
    (cur.ok /\ cur.now.confirmed # None) =>
        LET lv == calc_levels(cur, cur.now.confirmed)
            c == 100 * cur.close
        IN IF cur.now.confirmed = "UP"
           THEN lv.sl < c /\ c <= lv.tp1 /\ lv.tp1 <= lv.tp2 /\ lv.tp2 <= lv.tp3
           ELSE lv.sl > c /\ c >= lv.tp1 /\ lv.tp1 >= lv.tp2 /\ lv.tp2 >= lv.tp3

\* C9: an instrument is rejected exactly when, malformed records dropped, its
\* 4H answer holds fewer than 60 candles or its 1D answer fewer than 30.
C9_InsufficientData ==
    fetched.inst # None =>
        /\ (~fetched.ok) <=> (fetched.rows4 < 60 \/ fetched.rows1 < 30)
        /\ (fetched.inst \in DOMAIN A) <=> fetched.ok

IsLevels(x) == DOMAIN x = {"sl", "tp1", "tp2", "tp3"}

\* C10: calc_levels called with a null direction ends in an error and returns
\* no stop-loss / take-profit tuple.
C10_NullDirectionFails ==
    cur.ok => ~IsLevels(calc_levels(cur, None))
====
